---- MODULE Spec2Model ----
(***************************************************************************)
(* QR redirect / analytics subsystem: session classifier                   *)
(* (utils_session.py), event recorders and enrichment workers              *)
(* (routes/public.py, routes/social.py) and the redirect responder.        *)
(***************************************************************************)
EXTENDS Integers, Sequences, FiniteSets, TLC

(* ---------------------------- bounds ----------------------------------- *)
\* number of recorder requests (log_scan / log_social_click calls)
MaxReq == 2
\* last value of the clock, in days
MaxTime == 1
\* longest stored target URL, in characters
MaxUrlLen == 3

Req == 1..MaxReq
None == "None"
\* no result: the statement or its commit raised
Raised == "raised"
\* session ids a client can supply (payload or cookie)
ClientSessions == {"s1"}
\* str(uuid.uuid4()) of request r: a value no other request has
uuid4(r) == <<"u0", "u1", "u2", "u3", "u4", "u5", "u6">>[r + 1]
Kinds == {"qr_scan", "social_click"}
Addrs == {None, "ip1"}
\* the days_old arguments cleanup_old_sessions is called with
DaysOldArgs == {0, 1}

VARIABLES
    now,                 \* NOW() of the store, in days
    session_first_seen,  \* rows of the first-seen table, pending ones included
    events,              \* committed rows of qr_scans and social_clicks
    next_id,             \* per table, the id the next inserted row gets
    pc,                  \* position of each recorder request
    rq,                  \* inputs of each request: action type, session id, address
    inserted,            \* result.scalar_one_or_none() of the classifier's insert
    is_new,              \* return value of is_new_user_atomic
    pending,             \* the request's session holds an uncommitted event write
    resp,                \* response body status of each request
    task,                \* enrichment task scheduled by each request
    deleted_count,       \* return value of the last cleanup_old_sessions run
    cleaned,             \* session ids whose first-seen row a cleanup deleted
    qr_codes,            \* the code-to-target mapping (read-only here)
    redirect,            \* outcome of the last GET /r/{code}
    page                 \* the browser running the script of the returned page

vars == <<now, session_first_seen, events, next_id, pc, rq, inserted, is_new,
          pending, resp, task, deleted_count, cleaned, qr_codes, redirect, page>>

\* everything but the redirect responder's own state
recorder_vars == <<now, session_first_seen, events, next_id, pc, rq, inserted,
                   is_new, pending, resp, task, deleted_count, cleaned>>

NoReq == [action_type |-> None, session_id |-> None, ip_address |-> None]
NoTask == [pc |-> "none", id |-> 0, loc |-> None, outcome |-> None]

(* ------------------------ first-seen table ----------------------------- *)
\* committed rows are what every other transaction sees
Committed(sid) == {row \in session_first_seen : row.session_id = sid /\ row.committed}
\* a row inserted by a transaction that has not committed yet
PendingOf(sid) == {row \in session_first_seen : row.session_id = sid /\ ~row.committed}

\* ON CONFLICT (session_id) DO NOTHING: the insert does nothing when the key exists
Conflicts(sid) == Committed(sid) # {}

\* the row INSERT INTO session_first_seen adds for request r
FirstSeenRow(r) ==
    [session_id |-> rq[r].session_id, first_action_type |-> rq[r].action_type,
     created_at |-> now, by |-> r, committed |-> FALSE]

\* mutant: no uniqueness constraint, so no insert waits for another
InsertNeverBlocked(r) == FALSE

\* a store that serialises every insert into the table, whatever its key
InsertBlockedByAnyKey(r) ==
    \E row \in session_first_seen : ~row.committed /\ row.by # r

\* an insert of a key another open transaction has inserted waits for that
\* transaction to end (the store's unique-index lock)
InsertBlocked(r) == \E row \in PendingOf(rq[r].session_id) : row.by # r

\* is_new_user_atomic has returned to request r
Classified(r) ==
    rq[r].session_id # None /\ pc[r] \in {"persist", "respond", "done"}

(* ------------------------ session id resolution ------------------------ *)
\* log_scan: frontend_session or cookie_session or str(uuid.uuid4())
scan_session_id(r, frontend_session, cookie_session) ==
    IF frontend_session # "" THEN frontend_session
    ELSE IF cookie_session # None THEN cookie_session
    ELSE uuid4(r)

\* log_social_click: cookie_session or data.get("session_id", "") or uuid4
click_session_id(r, frontend_session, cookie_session) ==
    IF cookie_session # None THEN cookie_session
    ELSE IF frontend_session # "" THEN frontend_session
    ELSE uuid4(r)

effective_session_id(kind, r, frontend_session, cookie_session) ==
    IF kind = "qr_scan" THEN scan_session_id(r, frontend_session, cookie_session)
    ELSE click_session_id(r, frontend_session, cookie_session)

Started == {r \in Req : pc[r] # "idle"}

(* --------------------------- recorder: entry --------------------------- *)
\* the request arrives; the body parses and the session id is resolved, then
\* is_new_user_atomic is called
begin_request(r, kind, frontend_session, cookie_session, ip) ==
    /\ pc[r] = "idle"
    /\ r = Cardinality(Started) + 1
    /\ LET sid == effective_session_id(kind, r, frontend_session, cookie_session) IN
       /\ rq' = [rq EXCEPT ![r] = [action_type |-> kind, session_id |-> sid,
                                   ip_address |-> ip]]
    /\ pc' = [pc EXCEPT ![r] = "classify"]
    /\ UNCHANGED <<now, session_first_seen, events, next_id, inserted, is_new,
                   pending, resp, task, deleted_count, cleaned,
                   qr_codes, redirect, page>>

\* request.json() (or the branch lookup of log_social_click) raises before the
\* classifier is called: except Exception, (rollback,) return {"status": "error"}
begin_request_fails(r, kind, ip) ==
    /\ pc[r] = "idle"
    /\ r = Cardinality(Started) + 1
    /\ rq' = [rq EXCEPT ![r] = [action_type |-> kind, session_id |-> None,
                                ip_address |-> ip]]
    /\ resp' = [resp EXCEPT ![r] = "error"]
    /\ pc' = [pc EXCEPT ![r] = "done"]
    /\ UNCHANGED <<now, session_first_seen, events, next_id, inserted, is_new,
                   pending, task, deleted_count, cleaned,
                   qr_codes, redirect, page>>

(* ------------------------ is_new_user_atomic --------------------------- *)
\* the effect of INSERT ... ON CONFLICT (session_id) DO NOTHING on the table
insert_on_conflict_do_nothing(r) ==
    IF Conflicts(rq[r].session_id) THEN session_first_seen
    ELSE session_first_seen \cup {FirstSeenRow(r)}

\* mutant: the key comes back whether or not a row was inserted
returning_session_id_always(r) == rq[r].session_id

\* RETURNING session_id: the key when a row was inserted, no row otherwise
returning_session_id(r) ==
    IF Conflicts(rq[r].session_id) THEN None ELSE rq[r].session_id

\* result = await db.execute(query, {...})
is_new_user_atomic_execute(r) ==
    /\ pc[r] = "classify"
    /\ ~InsertBlocked(r)
    /\ inserted' = [inserted EXCEPT ![r] = returning_session_id(r)]
    /\ session_first_seen' = insert_on_conflict_do_nothing(r)
    /\ pc' = [pc EXCEPT ![r] = "cls_commit"]
    /\ UNCHANGED <<now, events, next_id, rq, is_new, pending, resp, task,
                   deleted_count, cleaned,
                   qr_codes, redirect, page>>

\* if inserted: return True, else: return False
is_new_user_result(r) == inserted[r] # None

\* the call of request r ended in one of its except branches
Faulted(r) == inserted[r] = Raised

\* await db.commit(), then the return
is_new_user_atomic_commit(r) ==
    /\ pc[r] = "cls_commit"
    /\ session_first_seen' =
          {IF row.by = r /\ ~row.committed THEN [row EXCEPT !.committed = TRUE]
           ELSE row : row \in session_first_seen}
    /\ is_new' = [is_new EXCEPT ![r] = is_new_user_result(r)]
    /\ pc' = [pc EXCEPT ![r] = "persist"]
    /\ UNCHANGED <<now, events, next_id, rq, inserted, pending, resp, task,
                   deleted_count, cleaned,
                   qr_codes, redirect, page>>

\* a classifier that lets the storage fault escape to the caller's handler
is_new_user_atomic_fault_propagates(r) ==
    /\ pc[r] \in {"classify", "cls_commit"}
    /\ session_first_seen' =
          {row \in session_first_seen : ~(row.by = r /\ ~row.committed)}
    /\ is_new' = [is_new EXCEPT ![r] = FALSE]
    /\ inserted' = [inserted EXCEPT ![r] = Raised]
    /\ resp' = [resp EXCEPT ![r] = "error"]
    /\ pc' = [pc EXCEPT ![r] = "done"]
    /\ UNCHANGED <<now, events, next_id, rq, pending, task, deleted_count,
                   cleaned, qr_codes, redirect, page>>

\* execute or commit raises: except branch, db.rollback(), return False
is_new_user_atomic_fault(r) ==
    /\ pc[r] \in {"classify", "cls_commit"}
    /\ session_first_seen' =
          {row \in session_first_seen : ~(row.by = r /\ ~row.committed)}
    /\ is_new' = [is_new EXCEPT ![r] = FALSE]
    /\ inserted' = [inserted EXCEPT ![r] = Raised]
    /\ pc' = [pc EXCEPT ![r] = "persist"]
    /\ UNCHANGED <<now, events, next_id, rq, pending, resp, task, deleted_count,
                   cleaned, qr_codes, redirect, page>>

(* ------------------------ cleanup_old_sessions ------------------------- *)
\* a cutoff that also takes the rows exactly days_old days old
OldRowsInclusive(days_old) ==
    {row \in session_first_seen : row.committed /\ row.created_at <= now - days_old}

\* WHERE created_at < NOW() - INTERVAL 'days_old days', over the committed rows
OldRows(days_old) ==
    {row \in session_first_seen : row.committed /\ row.created_at < now - days_old}

\* DELETE ... RETURNING session_id; commit; return len(result.all())
cleanup_old_sessions(days_old) ==
    /\ session_first_seen' = session_first_seen \ OldRows(days_old)
    /\ deleted_count' = Cardinality(OldRows(days_old))
    /\ cleaned' = cleaned \cup {row.session_id : row \in OldRows(days_old)}
    /\ UNCHANGED <<now, events, next_id, pc, rq, inserted, is_new, pending, resp,
                   task, qr_codes, redirect, page>>

\* the delete raises: db.rollback(), return 0
cleanup_old_sessions_fault ==
    /\ deleted_count' = 0
    /\ UNCHANGED <<now, session_first_seen, events, next_id, pc, rq, inserted,
                   is_new, pending, resp, task, cleaned,
                   qr_codes, redirect, page>>

\* a day passes; the clock is only read against created_at, so days that pass
\* over an empty table are not counted
Tick ==
    /\ now < MaxTime
    /\ session_first_seen # {}
    /\ now' = now + 1
    /\ UNCHANGED <<session_first_seen, events, next_id, pc, rq, inserted, is_new,
                   pending, resp, task, deleted_count, cleaned, qr_codes, redirect, page>>

(* ------------------------ recorder: persist ---------------------------- *)
\* geography columns the handlers set: QRScan has country, city and region,
\* SocialClick country and city
GeoFields(kind) ==
    IF kind = "qr_scan" THEN {"country", "city", "region"} ELSE {"country", "city"}

\* an event built without the classifier's result
NewEventNeverNew(r) ==
    [kind |-> rq[r].action_type, id |-> next_id[rq[r].action_type],
     session_id |-> rq[r].session_id, is_new_user |-> FALSE,
     ip_address |-> rq[r].ip_address,
     geo |-> [f \in GeoFields(rq[r].action_type) |-> None], by |-> r]

\* QRScan(...) / SocialClick(...): country = None, city = None (, region = None)
NewEvent(r) ==
    [kind |-> rq[r].action_type, id |-> next_id[rq[r].action_type],
     session_id |-> rq[r].session_id, is_new_user |-> is_new[r],
     ip_address |-> rq[r].ip_address,
     geo |-> [f \in GeoFields(rq[r].action_type) |-> None], by |-> r]

\* a recorder that schedules the task whether or not it has an address
scheduled_task_always(r) ==
    [pc |-> "scheduled", id |-> next_id[rq[r].action_type], loc |-> None,
     outcome |-> None]

\* if ip_address: background_tasks.add_task(_enrich_location, scan.id, ip_address)
scheduled_task(r) ==
    IF rq[r].ip_address # None
    THEN [pc |-> "scheduled", id |-> next_id[rq[r].action_type], loc |-> None,
          outcome |-> None]
    ELSE NoTask

\* db.add(scan); await db.commit(); await db.refresh(scan); add_task(...)
persist_event(r) ==
    /\ pc[r] = "persist"
    /\ events' = events \cup {NewEvent(r)}
    /\ next_id' = [next_id EXCEPT ![rq[r].action_type] = @ + 1]
    /\ task' = [task EXCEPT ![r] = scheduled_task(r)]
    /\ pc' = [pc EXCEPT ![r] = "respond"]
    /\ UNCHANGED <<now, session_first_seen, rq, inserted, is_new, pending, resp,
                   deleted_count, cleaned,
                   qr_codes, redirect, page>>

\* log_scan's except branch awaits db.rollback(); log_social_click's does not
rolls_back(kind) == kind = "qr_scan"

\* db.add(scan), then await db.commit() raises: the insert stays in the open
\* transaction of the request's session until a rollback; except Exception:
\* (rollback,) return {"status": "error"}
persist_commit_fault(r) ==
    /\ pc[r] = "persist"
    /\ pending' = [pending EXCEPT ![r] = ~rolls_back(rq[r].action_type)]
    /\ resp' = [resp EXCEPT ![r] = "error"]
    /\ pc' = [pc EXCEPT ![r] = "done"]
    /\ UNCHANGED <<now, session_first_seen, events, next_id, rq, inserted, is_new,
                   task, deleted_count, cleaned, qr_codes,
                   redirect, page>>

\* the commit went through and await db.refresh(scan) raises: except Exception,
\* (rollback of the now empty transaction,) return {"status": "error"}
persist_refresh_fault(r) ==
    /\ pc[r] = "persist"
    /\ events' = events \cup {NewEvent(r)}
    /\ next_id' = [next_id EXCEPT ![rq[r].action_type] = @ + 1]
    /\ resp' = [resp EXCEPT ![r] = "error"]
    /\ pc' = [pc EXCEPT ![r] = "done"]
    /\ UNCHANGED <<now, session_first_seen, rq, inserted, is_new, pending, task,
                   deleted_count, cleaned, qr_codes,
                   redirect, page>>

\* mutant: the handler awaits the enrichment instead of scheduling it
enrichment_awaited == FALSE

\* background_tasks.add_task(...): the task is handed over, not awaited
enrichment_detached == TRUE

\* the response is sent when the handler returns; a handler that awaited the
\* task would return only once the task has ended
response_ready(r) ==
    /\ pc[r] = "respond"
    /\ enrichment_detached \/ task[r].pc \in {"none", "done"}

\* return {"status": "success", ...}
respond(r) ==
    /\ response_ready(r)
    /\ resp' = [resp EXCEPT ![r] = "success"]
    /\ pc' = [pc EXCEPT ![r] = "done"]
    /\ UNCHANGED <<now, session_first_seen, events, next_id, rq, inserted, is_new,
                   pending, task, deleted_count, cleaned,
                   qr_codes, redirect, page>>

(* ------------------------ enrichment worker ---------------------------- *)
\* what get_location_from_ip returns when it has data
LocationResults == {[country |-> "IN", city |-> "Hyderabad", region |-> "Telangana"]}

\* background tasks run once the response of their request has been sent; an
\* awaited task would run inside the handler
task_may_start(r) == IF enrichment_detached THEN pc[r] = "done" ELSE pc[r] = "respond"

\* the task starts: async with async_session_maker(), await get_location_from_ip
enrich_start(r) ==
    /\ task[r].pc = "scheduled"
    /\ task_may_start(r)
    /\ task' = [task EXCEPT ![r].pc = "lookup"]
    /\ UNCHANGED <<now, session_first_seen, events, next_id, pc, rq, inserted,
                   is_new, pending, resp, deleted_count, cleaned, qr_codes, redirect, page>>

\* location_data = await get_location_from_ip(ip) has data
lookup_returns(r, location_data) ==
    /\ task[r].pc = "lookup"
    /\ task' = [task EXCEPT ![r].pc = "update", ![r].loc = location_data]
    /\ UNCHANGED <<now, session_first_seen, events, next_id, pc, rq, inserted,
                   is_new, pending, resp, deleted_count, cleaned, qr_codes, redirect, page>>

\* if not location_data: return
lookup_no_data(r) ==
    /\ task[r].pc = "lookup"
    /\ task' = [task EXCEPT ![r].pc = "done", ![r].outcome = "no_data"]
    /\ UNCHANGED <<now, session_first_seen, events, next_id, pc, rq, inserted,
                   is_new, pending, resp, deleted_count, cleaned, qr_codes, redirect, page>>

\* a worker whose failure is reported on the response of its request
enrich_fault_surfaces(r) ==
    /\ task[r].pc \in {"lookup", "update"}
    /\ task' = [task EXCEPT ![r].pc = "done", ![r].outcome = "logged_error"]
    /\ resp' = [resp EXCEPT ![r] = "error"]
    /\ UNCHANGED <<now, session_first_seen, events, next_id, pc, rq, inserted,
                   is_new, pending, deleted_count, cleaned, qr_codes, redirect, page>>

\* the lookup, the select or the commit raises: except Exception, logger.error
enrich_fault(r) ==
    /\ task[r].pc \in {"lookup", "update"}
    /\ task' = [task EXCEPT ![r].pc = "done", ![r].outcome = "logged_error"]
    /\ UNCHANGED <<now, session_first_seen, events, next_id, pc, rq, inserted,
                   is_new, pending, resp, deleted_count, cleaned, qr_codes, redirect, page>>

\* mutant: a commit right after the first assignment
enriched_country_only(row, location_data) ==
    [row EXCEPT !.geo = [f \in GeoFields(row.kind) |->
                           IF f = "country" THEN location_data[f] ELSE None]]

\* a worker that overwrites more than the geography of the row it fetched
enriched_and_restamped(row, location_data) ==
    [row EXCEPT !.geo = [f \in GeoFields(row.kind) |-> location_data[f]],
                !.is_new_user = FALSE]

\* scan.country = ...; scan.city = ...; (scan.region = ...); one commit
enriched(row, location_data) ==
    [row EXCEPT !.geo = [f \in GeoFields(row.kind) |-> location_data[f]]]

\* the rows select(QRScan).where(QRScan.id == scan_id) finds
fetch(kind, id) == {row \in events : row.kind = kind /\ row.id = id}

\* what the worker does to the table: if scan: set the fields and commit
enrich_rows(r) ==
    (events \ fetch(rq[r].action_type, task[r].id))
       \cup {enriched(row, task[r].loc) : row \in fetch(rq[r].action_type, task[r].id)}

\* mutant: no "if scan:" test, so a missing row raises inside the try block
enrich_outcome_unguarded(r) ==
    IF fetch(rq[r].action_type, task[r].id) = {} THEN "logged_error" ELSE "enriched"

\* outcome of the run once the row has been looked for
enrich_outcome(r) ==
    IF fetch(rq[r].action_type, task[r].id) = {} THEN "skipped" ELSE "enriched"

enrich_update(r) ==
    /\ task[r].pc = "update"
    /\ events' = enrich_rows(r)
    /\ task' = [task EXCEPT ![r].pc = "done", ![r].outcome = enrich_outcome(r)]
    /\ UNCHANGED <<now, session_first_seen, next_id, pc, rq, inserted, is_new,
                   pending, resp, deleted_count, cleaned, qr_codes, redirect, page>>

\* an event row is removed from outside this subsystem (e.g. purged) while an
\* enrichment task still targets it; a later removal meets no operation
purge_event(row) ==
    /\ row \in events
    /\ task[row.by].pc \in {"scheduled", "lookup", "update"}
    /\ events' = events \ {row}
    /\ UNCHANGED <<now, session_first_seen, next_id, pc, rq, inserted, is_new,
                   pending, resp, task, deleted_count, cleaned,
                   qr_codes, redirect, page>>

(* ------------------------ redirect responder --------------------------- *)
UrlChars == {"a", "?", "#"}
\* the stored target URLs considered: strings of 1..MaxUrlLen characters
Urls == UNION {[1..n -> UrlChars] : n \in 1..MaxUrlLen}
Codes == {"A", "B", "Z"}
\* the request's qr_session cookie, if any
Cookies == {None, "", "s1"}

\* code "A" is active, code "B" deactivated, any other code unknown
QrTable(target_url) ==
    {[code |-> "A", id |-> 1, target_url |-> target_url, is_active |-> TRUE],
     [code |-> "B", id |-> 2, target_url |-> target_url, is_active |-> FALSE]}

\* select(...).where(QRCode.code == code); result.one_or_none()
qr_lookup(code) == {q \in qr_codes : q.code = code}

\* "?" in target_url
contains_qmark(target_url) == \E i \in 1..Len(target_url) : target_url[i] = "?"

\* mutant: the separator is "?" whatever the target URL holds
separator_always_qmark(target_url) == "?"

\* separator = "&" if "?" in target_url else "?"
separator(target_url) == IF contains_qmark(target_url) THEN "&" ELSE "?"

\* redirect_url = f"{target_url}{separator}branch={qr_code}"
redirect_url(target_url, qr_code) ==
    target_url \o <<separator(target_url)>> \o <<"branch=">> \o <<qr_code>>

\* a redirect that mints an id for every response
redirect_session_id_minted(cookie) == uuid4(0)

\* session_id = request.cookies.get("qr_session") or str(uuid.uuid4()); an
\* absent cookie and an empty one are both falsy
redirect_session_id(cookie) ==
    IF cookie \notin {None, ""} THEN cookie ELSE uuid4(0)

Raise(status) ==
    [raised |-> TRUE, status |-> status, redirect_url |-> <<>>,
     payload_session_id |-> None, set_cookie |-> None]

\* the body of the try block: what it raises or returns
redirect_qr_try(code, cookie) ==
    IF qr_lookup(code) = {} THEN Raise(404)
    ELSE LET q == CHOOSE q \in qr_lookup(code) : TRUE IN
         IF ~q.is_active THEN Raise(410)
         ELSE [raised |-> FALSE, status |-> 200,
               redirect_url |-> redirect_url(q.target_url, q.code),
               payload_session_id |-> redirect_session_id(cookie),
               set_cookie |-> redirect_session_id(cookie)]

\* except Exception as e: raise HTTPException(status_code=500); HTTPException is
\* an Exception, so what the try block raised itself is caught here too
except_Exception(outcome) == IF outcome.raised THEN Raise(500) ELSE outcome

NoRedirect == [code |-> None, cookie |-> None, fault |-> FALSE,
               raised |-> FALSE, status |-> 0,
               redirect_url |-> <<>>, payload_session_id |-> None,
               set_cookie |-> None]

\* the request (its code and cookie, whether the store failed) and its outcome
Answer(code, cookie, fault, outcome) ==
    [code |-> code, cookie |-> cookie, fault |-> fault, raised |-> outcome.raised,
     status |-> outcome.status, redirect_url |-> outcome.redirect_url,
     payload_session_id |-> outcome.payload_session_id,
     set_cookie |-> outcome.set_cookie]

NoPage == [pc |-> "none", dispatched |-> "none", acked |-> FALSE,
           location |-> <<>>]

\* the browser shows what it received: the page of a 200 answer runs its script
\* from the top, an error answer has no script
Received(answer) ==
    IF answer.status = 200 /\ ~answer.raised
    THEN [NoPage EXCEPT !.pc = "beacon"]
    ELSE NoPage

\* GET /r/{code}
redirect_qr(code, cookie) ==
    /\ redirect' = Answer(code, cookie, FALSE,
                         except_Exception(redirect_qr_try(code, cookie)))
    /\ page' = Received(redirect')
    /\ UNCHANGED <<recorder_vars, qr_codes>>

\* GET /r/{code} when the lookup itself raises (a storage fault)
redirect_qr_fault(code, cookie) ==
    /\ redirect' = Answer(code, cookie, TRUE, except_Exception(Raise(0)))
    /\ page' = Received(redirect')
    /\ UNCHANGED <<recorder_vars, qr_codes>>

(* ------------------------ the returned page's script ------------------- *)
\* a script that schedules the navigation from the report's acknowledgment
page_set_timeout_on_ack ==
    /\ page.pc = "timer"
    /\ page.acked
    /\ page' = [page EXCEPT !.pc = "waiting"]
    /\ UNCHANGED <<recorder_vars, qr_codes, redirect>>

\* const sent = navigator.sendBeacon(url, blob): queues the report and returns
\* true, or returns false; `if (!sent)` then decides on the fallback
page_send_beacon(sent) ==
    /\ page.pc = "beacon"
    /\ page' = [page EXCEPT !.pc = IF sent THEN "timer" ELSE "fallback",
                            !.dispatched = IF sent THEN "beacon" ELSE "none"]
    /\ UNCHANGED <<recorder_vars, qr_codes, redirect>>

\* fetch(url, {method: "POST", ..., keepalive: true}).catch(() => {})
page_fetch_keepalive ==
    /\ page.pc = "fallback"
    /\ page' = [page EXCEPT !.pc = "timer", !.dispatched = "fetch"]
    /\ UNCHANGED <<recorder_vars, qr_codes, redirect>>

\* setTimeout(() => {...}, 100): the navigation is scheduled
page_set_timeout ==
    /\ page.pc = "timer"
    /\ page' = [page EXCEPT !.pc = "waiting"]
    /\ UNCHANGED <<recorder_vars, qr_codes, redirect>>

\* the timer fires: window.location.replace(redirect_url)
page_location_replace ==
    /\ page.pc = "waiting"
    /\ page' = [page EXCEPT !.pc = "navigated", !.location = redirect.redirect_url]
    /\ UNCHANGED <<recorder_vars, qr_codes, redirect>>

\* the recorder's answer to the dispatched report reaches the browser; nothing
\* in the script waits for it
page_report_acked ==
    /\ page.dispatched # "none"
    /\ ~page.acked
    /\ page' = [page EXCEPT !.acked = TRUE]
    /\ UNCHANGED <<recorder_vars, qr_codes, redirect>>

(* ------------------------ specification -------------------------------- *)
InitRecorder ==
    /\ now = 0
    /\ session_first_seen = {}
    /\ events = {}
    /\ next_id = [k \in Kinds |-> 1]
    /\ pc = [r \in Req |-> "idle"]
    /\ rq = [r \in Req |-> NoReq]
    /\ inserted = [r \in Req |-> None]
    /\ is_new = [r \in Req |-> FALSE]
    /\ pending = [r \in Req |-> FALSE]
    /\ resp = [r \in Req |-> None]
    /\ task = [r \in Req |-> NoTask]
    /\ deleted_count = 0
    /\ cleaned = {}

Init ==
    /\ InitRecorder
    /\ qr_codes = QrTable(<<"a">>)
    /\ redirect = NoRedirect
    /\ page = NoPage

Next ==
    \/ \E r \in Req, kind \in Kinds, fs \in ClientSessions \cup {""},
          cs \in ClientSessions \cup {None}, ip \in Addrs :
          begin_request(r, kind, fs, cs, ip)
    \/ \E r \in Req, kind \in Kinds, ip \in Addrs : begin_request_fails(r, kind, ip)
    \/ \E r \in Req : is_new_user_atomic_execute(r)
    \/ \E r \in Req : is_new_user_atomic_commit(r)
    \/ \E r \in Req : is_new_user_atomic_fault(r)
    \/ \E r \in Req : persist_event(r)
    \/ \E r \in Req : persist_commit_fault(r)
    \/ \E r \in Req : persist_refresh_fault(r)
    \/ \E r \in Req : respond(r)
    \/ \E r \in Req : enrich_start(r)
    \/ \E r \in Req, loc \in LocationResults : lookup_returns(r, loc)
    \/ \E r \in Req : lookup_no_data(r)
    \/ \E r \in Req : enrich_fault(r)
    \/ \E r \in Req : enrich_update(r)
    \/ \E row \in events : purge_event(row)
    \/ \E d \in DaysOldArgs : cleanup_old_sessions(d)
    \/ cleanup_old_sessions_fault
    \/ Tick

\* The recorders, the classifier, the enrichment worker and retention cleanup.
\* The redirect responder shares no stored state with them (it reads the code
\* table and the request's cookie only) and has its own specification below.
Spec == Init /\ [][Next]_vars

\* The classifier and what feeds on its result: requests from clients without a
\* network address (no enrichment is scheduled), the classifier with its storage
\* faults, persistence with a failing commit, retention cleanup and the clock.
NextSessions ==
    \/ \E r \in Req, kind \in Kinds, fs \in ClientSessions \cup {""},
          cs \in ClientSessions \cup {None} : begin_request(r, kind, fs, cs, None)
    \/ \E r \in Req, kind \in Kinds : begin_request_fails(r, kind, None)
    \/ \E r \in Req : is_new_user_atomic_execute(r)
    \/ \E r \in Req : is_new_user_atomic_commit(r)
    \/ \E r \in Req : is_new_user_atomic_fault(r)
    \/ \E r \in Req : persist_event(r)
    \/ \E r \in Req : persist_commit_fault(r)
    \/ \E r \in Req : respond(r)
    \/ \E d \in DaysOldArgs : cleanup_old_sessions(d)
    \/ cleanup_old_sessions_fault
    \/ Tick

SpecSessions == Init /\ [][NextSessions]_vars

\* What a browser can send as its session: the payload's session_id (absent or
\* one of two ids) and the qr_session cookie (absent or one of two ids), to
\* either recorder; the request is then classified, persisted and answered.
BrowserSessions == {"s1", "s2"}

NextInputs ==
    \/ \E r \in Req, kind \in Kinds, fs \in BrowserSessions \cup {""},
          cs \in BrowserSessions \cup {None} : begin_request(r, kind, fs, cs, None)
    \/ \E r \in Req : is_new_user_atomic_execute(r)
    \/ \E r \in Req : is_new_user_atomic_commit(r)
    \/ \E r \in Req : persist_event(r)
    \/ \E r \in Req : respond(r)

SpecInputs == Init /\ [][NextInputs]_vars

\* The recorder and the enrichment worker: requests that bring no session id
\* (each is classified under its own fresh id), persistence, the response, the
\* detached enrichment task and removal of event rows from outside.
NextEnrich ==
    \/ \E r \in Req, kind \in Kinds, ip \in Addrs : begin_request(r, kind, "", None, ip)
    \/ \E r \in Req, kind \in Kinds, ip \in Addrs : begin_request_fails(r, kind, ip)
    \/ \E r \in Req : is_new_user_atomic_execute(r)
    \/ \E r \in Req : is_new_user_atomic_commit(r)
    \/ \E r \in Req : persist_event(r)
    \/ \E r \in Req : persist_commit_fault(r)
    \/ \E r \in Req : persist_refresh_fault(r)
    \/ \E r \in Req : respond(r)
    \/ \E r \in Req : enrich_start(r)
    \/ \E r \in Req, loc \in LocationResults : lookup_returns(r, loc)
    \/ \E r \in Req : lookup_no_data(r)
    \/ \E r \in Req : enrich_fault(r)
    \/ \E r \in Req : enrich_update(r)
    \/ \E row \in events : purge_event(row)

SpecEnrich == Init /\ [][NextEnrich]_vars

\* a step of the handler of request r: the event loop runs every handler that can
\* go on, and the store answers every statement (with a result or a fault)
RecorderStep(r) ==
    \/ is_new_user_atomic_execute(r)
    \/ is_new_user_atomic_commit(r)
    \/ persist_event(r)
    \/ persist_commit_fault(r)
    \/ persist_refresh_fault(r)
    \/ respond(r)

\* no fairness for the enrichment task: the resolver may never return
FairSpecEnrich == SpecEnrich /\ \A r \in Req : WF_vars(RecorderStep(r))

\* the resolver's call ends: with data, with none, or with an error (its
\* requests are bounded by a timeout)
ResolverReturns(r) ==
    \/ \E loc \in LocationResults : lookup_returns(r, loc)
    \/ lookup_no_data(r)
    \/ task[r].pc = "lookup" /\ enrich_fault(r)

\* a step of the enrichment task of request r besides the resolver's: the event
\* loop starts the task and the store answers its select and its commit
WorkerStep(r) ==
    \/ enrich_start(r)
    \/ enrich_update(r)
    \/ task[r].pc = "update" /\ enrich_fault(r)

FairSpecWorker ==
    /\ SpecEnrich
    /\ \A r \in Req : WF_vars(RecorderStep(r))
    /\ \A r \in Req : WF_vars(WorkerStep(r))
    /\ \A r \in Req : WF_vars(ResolverReturns(r))

\* The redirect responder, over every stored target URL of the bounded set.
InitRedirect ==
    /\ InitRecorder
    /\ qr_codes \in {QrTable(t) : t \in Urls}
    /\ redirect = NoRedirect
    /\ page = NoPage

NextRedirect ==
    \/ \E code \in Codes, cookie \in Cookies : redirect_qr(code, cookie)
    \/ \E code \in Codes, cookie \in Cookies : redirect_qr_fault(code, cookie)

SpecRedirect == InitRedirect /\ [][NextRedirect]_vars

\* One browser tab: it requests GET /r/{code}, runs the script of the page it
\* receives to the end, and only then requests again.
TabIdle == page.pc \in {"none", "navigated"}

PageStep ==
    \/ \E sent \in BOOLEAN : page_send_beacon(sent)
    \/ page_fetch_keepalive
    \/ page_set_timeout
    \/ page_location_replace

NextPage ==
    \/ \E code \in Codes, cookie \in Cookies : TabIdle /\ redirect_qr(code, cookie)
    \/ \E code \in Codes, cookie \in Cookies : TabIdle /\ redirect_qr_fault(code, cookie)
    \/ PageStep
    \/ page_report_acked

SpecPage == InitRedirect /\ [][NextPage]_vars

\* the browser runs the script's statements and fires its timer; nothing makes
\* the recorder's acknowledgment arrive
FairSpecPage == SpecPage /\ WF_vars(PageStep)

(* ======================== session classification ======================= *)
SessionIds == ClientSessions \cup {uuid4(r) : r \in Req}
\* the calls of is_new_user_atomic made with session id sid
CallsWith(sid) == {r \in Req : rq[r].session_id = sid}
\* those that have returned True
ReturnedTrue(sid) == {r \in CallsWith(sid) : Classified(r) /\ is_new[r]}
\* every call made with sid has returned, not all of them through an except
\* branch, and no cleanup has deleted a row of sid
Settled(sid) ==
    /\ \A r \in CallsWith(sid) : Classified(r)
    /\ \E r \in CallsWith(sid) : ~Faulted(r)
    /\ sid \notin cleaned

\* C1: when the calls made with one session id against a table without a row for
\* it have all returned (not every one of them on a storage fault, no cleanup in
\* between), exactly one of them returned True and all others False, whatever
\* the interleaving.
C1_ExactlyOneTrue ==
    \A sid \in SessionIds :
        Settled(sid) => Cardinality(ReturnedTrue(sid)) = 1

\* two calls with the same id overlapped: request a arrived first and was still
\* in its call when the insert of the later request b had committed
C1_Witness ==
    \E a, b \in Req :
        /\ a < b
        /\ rq[a].session_id = rq[b].session_id
        /\ Settled(rq[a].session_id)
        /\ ~Faulted(a) /\ ~Faulted(b)
        /\ is_new[b] /\ ~is_new[a]

\* C2: over the whole history, cleanup runs included, is_new_user_atomic returns
\* True for a session id on one call only: never on two calls with the same id.
C2_TrueOnlyOnce ==
    \A a, b \in Req :
        (a # b /\ rq[a].session_id # None /\ rq[a].session_id = rq[b].session_id
              /\ Classified(a) /\ Classified(b))
            => ~(is_new[a] /\ is_new[b])

\* C3: the first-seen table never holds two rows with the same session id.
C3_OneRowPerSession ==
    \A x, y \in session_first_seen : x.session_id = y.session_id => x = y

\* a session id used by two calls that both returned, with its row in the table
C3_Witness ==
    \E a, b \in Req :
        /\ a # b /\ rq[a].session_id = rq[b].session_id
        /\ Classified(a) /\ Classified(b)
        /\ Committed(rq[a].session_id) # {}

\* C4: scans and clicks counted together, at most one persisted event of a
\* session id carries is_new_user = true.
C4_OneNewUserEvent ==
    \A e, f \in events :
        (e.session_id = f.session_id /\ e.is_new_user /\ f.is_new_user) => e = f
(* ======================== redirect responder =========================== *)
\* the stored rows of the code of the last request
Requested == {q \in qr_codes : q.code = redirect.code}

\* C5: without a fault, GET /r/{code} answers 404 for an unknown code, 410 for a
\* deactivated one and the page (200) for an active one; 500 only on a fault.
C5_DistinctStatuses ==
    (redirect.code # None /\ ~redirect.fault) =>
        /\ Requested = {} => redirect.status = 404
        /\ (\E q \in Requested : ~q.is_active) => redirect.status = 410
        /\ (\E q \in Requested : q.is_active) => redirect.status = 200

\* a "?" that is not inside the fragment starts the query string of a URL
HasQueryString(url) ==
    \E i \in 1..Len(url) : url[i] = "?" /\ \A j \in 1..(i - 1) : url[j] # "#"
HasNoQmark(url) == \A i \in 1..Len(url) : url[i] # "?"

\* C6: for an active code with target T the destination is T, unmodified, followed
\* by "?branch=<code>" when T holds no "?", and by "&branch=<code>" when T already
\* has a query string.
C6_Destination ==
    \A q \in Requested :
        (~redirect.raised /\ q.is_active) =>
            LET T == q.target_url
                d == redirect.redirect_url IN
            /\ Len(d) = Len(T) + 3
            /\ SubSeq(d, 1, Len(T)) = T
            /\ SubSeq(d, Len(T) + 2, Len(T) + 3) = <<"branch=", q.code>>
            /\ HasNoQmark(T) => d[Len(T) + 1] = "?"
            /\ HasQueryString(T) => d[Len(T) + 1] = "&"

\* a page was produced for a target that already has a query string
C6_Witness ==
    \E q \in Requested :
        /\ ~redirect.raised /\ q.is_active /\ HasQueryString(q.target_url)
        /\ redirect.redirect_url = q.target_url \o <<"&", "branch=", q.code>>
(* ======================== recorder and enrichment ====================== *)
\* C7: every call of the recorder ends with a response, whatever the resolver
\* does: no step of the enrichment task is needed for it.
C7_AlwaysResponds == \A r \in Req : (pc[r] # "idle") ~> (resp[r] # None)

\* a request has its response while the resolver has not returned to its task
C7_Witness ==
    \E r \in Req : resp[r] = "success" /\ task[r].pc = "lookup"

Unknown(e) == \A f \in DOMAIN e.geo : e.geo[f] = None
ResolvedTo(e, loc) == \A f \in DOMAIN e.geo : e.geo[f] = loc[f]

\* C8: an event recorded with an address has all its geography fields unknown
\* until its enrichment has committed and all of them at the resolver's values
\* afterwards; no state shows a mix.
C8_GeoAllOrNothing ==
    \A e \in events :
        e.ip_address # None =>
            /\ Unknown(e) \/ \E loc \in LocationResults : ResolvedTo(e, loc)
            /\ task[e.by].outcome # "enriched" => Unknown(e)
            /\ task[e.by].outcome = "enriched" => ResolvedTo(e, task[e.by].loc)

\* a scan whose enrichment has committed
C8_Witness ==
    \E e \in events :
        /\ e.kind = "qr_scan" /\ e.ip_address # None
        /\ task[e.by].outcome = "enriched"
        /\ \A f \in {"country", "city", "region"} : e.geo[f] # None

\* C9: a worker that finds no row with its event id ends without an error and
\* changes no row.
C9_MissingRowIsNoop ==
    [][\A r \in Req :
          (enrich_update(r) /\ fetch(rq[r].action_type, task[r].id) = {}) =>
              /\ events' = events
              /\ session_first_seen' = session_first_seen
              /\ task'[r].pc = "done" /\ task'[r].outcome = "skipped"]_vars

\* a task has ended on a missing row
C9_Witness ==
    \E r \in Req :
        /\ task[r].outcome = "skipped"
        /\ fetch(rq[r].action_type, task[r].id) = {}

\* C10: a request answered {status: "error"} has rolled back the write pending
\* on its session and has left no event row in the store.
C10_ErrorRollsBack ==
    \A r \in Req :
        resp[r] = "error" => (~pending[r] /\ \A e \in events : e.by # r)

EventsBy(r) == {e \in events : e.by = r}

FaultStored(r) ==
    Faulted(r) =>
        /\ ~is_new[r]
        /\ \A e \in EventsBy(r) : ~e.is_new_user
        /\ resp[r] = "success" => EventsBy(r) # {}

FaultReturnsFalse(r) ==
    (pc[r] \in {"classify", "cls_commit"} /\ inserted'[r] = Raised) =>
        (pc'[r] = "persist" /\ is_new'[r] = FALSE /\ resp'[r] = None)

\* C11: a call of the classifier whose insert failed with a storage fault
\* returns False to the recorder instead of raising: the step that takes the
\* fault leaves the recorder at its persist step, unanswered, with
\* is_new_user = False; every event that request stores carries
\* is_new_user = False, and a request answered success has stored its event.
C11_FaultReturnsFalse ==
    /\ [](\A r \in Req : FaultStored(r))
    /\ [][\A r \in Req : FaultReturnsFalse(r)]_vars

C11_Witness ==
    \E r \in Req :
        /\ Faulted(r)
        /\ resp[r] = "success"
        /\ \E e \in EventsBy(r) : ~e.is_new_user /\ e.session_id = rq[r].session_id
PayloadFirst(r, frontend_session, cookie_session) ==
    IF frontend_session # "" THEN rq'[r].session_id = frontend_session
    ELSE IF cookie_session # None THEN rq'[r].session_id = cookie_session
    ELSE rq'[r].session_id = uuid4(r)

\* C12: in both recorders the effective session id of a request is the
\* payload's session_id when it is non-empty, else the qr_session cookie, else
\* a fresh id; a request carrying two different ids is classified under the
\* payload's.
C12_PayloadBeforeCookie ==
    [][\A r \in Req, kind \in Kinds, fs \in BrowserSessions \cup {""},
          cs \in BrowserSessions \cup {None} :
            begin_request(r, kind, fs, cs, None) => PayloadFirst(r, fs, cs)]_vars
CarriesSession(cookie) == cookie \notin {None, ""}

\* C13: every successful redirect response embeds in its beacon payload the
\* same session id it sets as the qr_session cookie; that id is the request's
\* qr_session cookie whenever the request carried one, and a newly minted id
\* only when it carried none.
C13_PayloadIsCookie ==
    (redirect.status = 200 /\ ~redirect.raised) =>
        /\ redirect.payload_session_id # None
        /\ redirect.payload_session_id = redirect.set_cookie
        /\ CarriesSession(redirect.cookie) =>
               redirect.payload_session_id = redirect.cookie
        /\ ~CarriesSession(redirect.cookie) =>
               redirect.payload_session_id = uuid4(0)

C13_Witness ==
    /\ redirect.status = 200
    /\ redirect.cookie = "s1"
    /\ redirect.payload_session_id = "s1"
    /\ redirect.set_cookie = "s1"
Dispatched == page.dispatched # "none"

\* C14: the script of the redirect page initiates the dispatch of the report
\* (the beacon, or the keep-alive request when sendBeacon returns false) before
\* it initiates the navigation; the navigation waits for no acknowledgment and
\* happens in every run of the script, acknowledged or not.
C14_ReportThenNavigate ==
    /\ [](page.pc \in {"waiting", "navigated"} => Dispatched)
    /\ (page.pc = "beacon") ~> (page.pc = "navigated")

C14_Witness ==
    /\ page.pc = "navigated"
    /\ page.dispatched = "fetch"
    /\ ~page.acked
    /\ page.location = redirect.redirect_url
\* first-seen rows whose inserting request has finished
FinishedRows ==
    {row \in session_first_seen : row.committed /\ pc[row.by] = "done"}

NewUserEvents(sid) == {e \in events : e.session_id = sid /\ e.is_new_user}

HasTask(r) == task[r].pc # "none"
TaskStarted(r) == task[r].pc \in {"lookup", "update", "done"}

\* a task exists only for a request with an address that was not answered
\* with an error; a started task belongs to a request whose response is out
ScheduledOnlyWithAddress(r) ==
    /\ HasTask(r) => (rq[r].ip_address # None /\ resp[r] # "error")
    /\ TaskStarted(r) => (pc[r] = "done" /\ resp[r] = "success")
    /\ resp[r] = "error" => ~HasTask(r)

\* the step that schedules the task leaves the event row committed under the
\* id the task is given
ScheduledAfterCommit(r) ==
    (~HasTask(r) /\ task'[r].pc # "none") =>
        \E e \in events' :
            /\ e.by = r
            /\ e.kind = rq[r].action_type
            /\ e.id = task'[r].id
            /\ e.id >= 1

\* C16: an enrichment task is scheduled only by a request that has a network
\* address, and only once the event row is committed and has its id; the task
\* starts only after the response of its request has been sent; a request that
\* ends with {status: error} has scheduled no task.
C16_TaskAfterCommitAndResponse ==
    /\ [](\A r \in Req : ScheduledOnlyWithAddress(r))
    /\ [][\A r \in Req : ScheduledAfterCommit(r)]_vars

C16_Witness ==
    \E r \in Req :
        /\ task[r].outcome = "enriched"
        /\ rq[r].ip_address = "ip1"
        /\ resp[r] = "success"
        /\ \E q \in Req : rq[q].action_type # None /\ rq[q].ip_address = None
                             /\ resp[q] = "success" /\ ~HasTask(q)
\* row and its successor differ in nothing but the geography fields
SameButGeo(e, f) ==
    /\ f.kind = e.kind
    /\ f.id = e.id
    /\ f.session_id = e.session_id
    /\ f.is_new_user = e.is_new_user
    /\ f.ip_address = e.ip_address
    /\ f.by = e.by

\* the step rewrites event e: it is the update of e's own enrichment task, on
\* a row never enriched before, and touches nothing else in the store
EnrichedByOwnTask(e) ==
    /\ task[e.by].pc = "update"
    /\ task'[e.by].pc = "done"
    /\ task[e.by].id = e.id
    /\ Unknown(e)
    /\ \E f \in events' : SameButGeo(e, f) /\ f.geo # e.geo
    /\ \A o \in events \ {e} : o \in events'
    /\ session_first_seen' = session_first_seen

\* C17: once an event row exists, no step of the subsystem changes it except
\* the update of its own enrichment task, which happens at most once (on a row
\* whose geography is still unknown) and changes the geography fields only;
\* that update leaves every other event row and every first-seen row as they
\* were. (A row may be removed from outside; that is not a change to it.)
C17_OnlyGeoEnrichedOnce ==
    [][\A e \in events :
          \/ e \in events'
          \/ purge_event(e)
          \/ EnrichedByOwnTask(e)]_vars

C17_Witness ==
    \E e \in events :
        /\ \E loc \in LocationResults : ResolvedTo(e, loc)
        /\ task[e.by].outcome = "enriched"
        /\ e.is_new_user
        /\ \E o \in events : o # e /\ Unknown(o)
\* the calls still inside is_new_user_atomic
InCall == {r \in Req : pc[r] \in {"classify", "cls_commit"}}

\* C18: calls of the classifier on different session ids do not interfere: a
\* call about to insert waits only if another call in progress uses the same
\* session id, and a call on a session id that no other call uses and that was
\* never seen returns True (unless its own insert hit a storage fault).
C18_DistinctSessionsIndependent ==
    \A r \in Req :
        /\ (pc[r] = "classify" /\ InsertBlocked(r)) =>
               \E o \in InCall \ {r} : rq[o].session_id = rq[r].session_id
        /\ (Classified(r) /\ ~Faulted(r) /\ CallsWith(rq[r].session_id) = {r}) =>
               is_new[r]

\* request a arrived first and is still in its call, its insert uncommitted,
\* when the later request b on another never-seen id has returned True
C18_Witness ==
    \E a, b \in Req :
        /\ a < b
        /\ rq[a].session_id # rq[b].session_id
        /\ pc[a] = "cls_commit" /\ inserted[a] = rq[a].session_id
        /\ Classified(b) /\ is_new[b]
TaskEnded(r) == task[r].pc = "done"
TaskFailed(r) == task[r].outcome \in {"no_data", "logged_error"}

\* an ended task either committed (or found no row to write) or failed; a
\* failed one leaves its event's geography unknown; whatever the task did, its
\* request keeps the success response it was sent
EndsSilently(r) ==
    /\ TaskEnded(r) <=>
           task[r].outcome \in {"enriched", "skipped", "no_data", "logged_error"}
    /\ TaskFailed(r) => \A e \in EventsBy(r) : Unknown(e)
    /\ TaskStarted(r) => resp[r] = "success"

\* a step of the task changes no request's position or response
TaskStepIsDetached(r) ==
    (HasTask(r) /\ task'[r] # task[r]) => (resp' = resp /\ pc' = pc)

\* C19: every scheduled enrichment task eventually ends, having committed or
\* having failed silently; when the resolver has no result, or the lookup or
\* the store fails, the task ends with no error on any request or response and
\* the event's geography fields stay unknown.
C19_TaskEndsSilently ==
    /\ [](\A r \in Req : EndsSilently(r))
    /\ [][\A r \in Req : TaskStepIsDetached(r)]_vars
    /\ \A r \in Req : HasTask(r) ~> TaskEnded(r)

C19_Witness ==
    \E a, b \in Req :
        /\ task[a].outcome = "logged_error"
        /\ task[b].outcome = "no_data"
        /\ EventsBy(a) # {} /\ EventsBy(b) # {}
        /\ \A e \in EventsBy(a) \cup EventsBy(b) : Unknown(e)
        /\ resp[a] = "success" /\ resp[b] = "success"
\* age of a first-seen row, in days
Age(row) == now - row.created_at

\* what a run with argument days_old must leave: the committed rows older than
\* days_old days are gone and counted, every other row and every event stays
DeletesExactlyOld(days_old) ==
    /\ session_first_seen' =
          {row \in session_first_seen : ~(row.committed /\ Age(row) > days_old)}
    /\ deleted_count' =
          Cardinality({row \in session_first_seen :
                          row.committed /\ Age(row) > days_old})
    /\ events' = events

FailedCleanupDeletesNothing ==
    /\ session_first_seen' = session_first_seen
    /\ events' = events
    /\ deleted_count' = 0

\* C20: cleanup_old_sessions(days_old) deletes exactly the first-seen rows
\* older than days_old days and returns their number, leaving younger rows and
\* all event rows as they were; when the delete fails it deletes nothing and
\* returns 0; no committed first-seen row disappears in any other way.
C20_CleanupDeletesExactlyOld ==
    [][/\ \A d \in DaysOldArgs : cleanup_old_sessions(d) => DeletesExactlyOld(d)
       /\ cleanup_old_sessions_fault => FailedCleanupDeletesNothing
       /\ \A row \in session_first_seen :
             (row.committed /\ row \notin session_first_seen') =>
                 \E d \in DaysOldArgs : Age(row) > d /\ deleted_count' >= 1]_vars

\* a run deleted one row and left a younger one, and the event of the deleted
\* session is still stored
C20_Witness ==
    /\ deleted_count = 1
    /\ \E row \in session_first_seen :
          row.committed /\ Age(row) = 0 /\ pc[row.by] = "done"
    /\ \E e \in events : e.session_id \in cleaned
====
